---- MODULE Spec2Model ----
(***************************************************************************)
(* The data-block reader of rocksdb/table/block.cc: the entry codec        *)
(* (DecodeEntry), the block handle (Block) and the cursor (BlockIter).     *)
(* The block is a byte buffer; every offset and length the code keeps in a *)
(* uint32_t is kept here as a 32-bit value, so that wrap-around is what    *)
(* the code computes.                                                      *)
(***************************************************************************)
EXTENDS Integers, Sequences, FiniteSets, TLC

VARIABLES
  data,    \* the block's bytes (contents_.data), a sequence of 0..255
  src,     \* how the buffer was produced (the entries it was built from)
  phase,   \* "buffer" (before Block::Block), "block", "iter" (cursor handed out)
  block,   \* the Block object: size_, restart_offset_, hash_index_, prefix_index_
  iter,    \* the BlockIter object
  middle,  \* the result of the last GetMiddleKey call
  halt,    \* "none", or how the process stopped: "crashed", "hung"
  lastOp,  \* the last cursor operation that returned: its name, its target
  walk     \* entries stepped over since the last SeekToFirst, -1 otherwise

vars == <<data, src, phase, block, iter, middle, halt, lastOp, walk>>

----------------------------------------------------------------------------
(* uint32_t: a value v is the record [hi, lo] with v = hi * 2^16 + lo.      *)

U32(n) == [hi |-> n \div 65536, lo |-> n % 65536]

Zero32 == U32(0)

One32 == U32(1)

\* the value as an integer; used where the value is known to be below 2^31
Val(x) == x.hi * 65536 + x.lo

Add32(a, b) ==
  LET s == a.lo + b.lo
  IN [hi |-> (a.hi + b.hi + (s \div 65536)) % 65536, lo |-> s % 65536]

Sub32(a, b) ==
  LET d == a.lo - b.lo
      borrow == IF d < 0 THEN 1 ELSE 0
  IN [hi |-> (a.hi - b.hi - borrow + 65536) % 65536, lo |-> (d + 65536) % 65536]

Lt32(a, b) == a.hi < b.hi \/ (a.hi = b.hi /\ a.lo < b.lo)

Half32(a) == [hi |-> a.hi \div 2, lo |-> (a.hi % 2) * 32768 + (a.lo \div 2)]

\* x * sizeof(uint32_t), truncated to 32 bits
Mul4(a) == LET d == Add32(a, a) IN Add32(d, d)

\* (b << shift) as a uint32_t, for a 7-bit group b
Shl32(b, shift) ==
  IF shift >= 16
  THEN [hi |-> (b * (2 ^ (shift - 16))) % 65536, lo |-> 0]
  ELSE U32(b * (2 ^ shift))

Min(a, b) == IF a < b THEN a ELSE b

Take(s, n) == SubSeq(s, 1, n)

----------------------------------------------------------------------------
(* The buffer and the fixed-width and variable-width integers in it.        *)

N == Len(data)

\* whether the len bytes at offset p lie inside the buffer
InBuf(p, len) == len.hi = 0 /\ p + len.lo <= N

\* the bytes of [p, p + len) that lie inside the buffer
Readable(p, len) == SubSeq(data, p + 1, IF InBuf(p, len) THEN p + len.lo ELSE N)

DecodeFixed32(off) ==
  [lo |-> data[off + 1] + 256 * data[off + 2],
   hi |-> data[off + 3] + 256 * data[off + 4]]

RECURSIVE GetVarint32Ptr(_, _, _, _)
GetVarint32Ptr(p, limit, shift, result) ==
  IF shift > 28 \/ p >= limit
  THEN [ok |-> FALSE, v |-> result, p |-> p]
  ELSE LET byte == data[p + 1]
       IN IF byte >= 128
          THEN GetVarint32Ptr(p + 1, limit, shift + 7,
                              Add32(result, Shl32(byte - 128, shift)))
          ELSE [ok |-> TRUE, v |-> Add32(result, Shl32(byte, shift)), p |-> p + 1]

\* what a read outside the buffer yields: the bytes of the chosen outcome
Fill(g) == IF g = "ones" THEN 255 ELSE 0

GarbageWord(g) == [lo |-> Fill(g) + 256 * Fill(g), hi |-> Fill(g) + 256 * Fill(g)]

OobOutcomes == {"crash", "zeros", "ones"}

----------------------------------------------------------------------------
(* DecodeEntry: p and limit are byte offsets from data_.                   *)

NullEntry ==
  [ok |-> FALSE, shared |-> Zero32, non_shared |-> Zero32,
   value_length |-> Zero32, p |-> 0]

\* the three varints of the slow path, read one after the other
VarintHeader3(a, b, c) ==
  IF a.ok /\ b.ok /\ c.ok
  THEN [ok |-> TRUE, shared |-> a.v, non_shared |-> b.v, value_length |-> c.v, p |-> c.p]
  ELSE NullEntry

VarintHeader2(a, b, L) == VarintHeader3(a, b, GetVarint32Ptr(b.p, L, 0, Zero32))

VarintHeader(a, L) == VarintHeader2(a, GetVarint32Ptr(a.p, L, 0, Zero32), L)

EntryHeader(P, L) ==
  IF data[P + 1] < 128 /\ data[P + 2] < 128 /\ data[P + 3] < 128
  THEN [ok |-> TRUE, shared |-> U32(data[P + 1]), non_shared |-> U32(data[P + 2]),
        value_length |-> U32(data[P + 3]), p |-> P + 3]
  ELSE VarintHeader(GetVarint32Ptr(P, L, 0, Zero32), L)

\* the last check of DecodeEntry: the sum is a uint32_t sum
EntryFits(h, limit) ==
  IF ~h.ok THEN NullEntry
  ELSE IF Lt32(U32(Val(limit) - h.p), Add32(h.non_shared, h.value_length))
  THEN NullEntry
  ELSE h

DecodeEntry(p, limit) ==
  IF Lt32(limit, p) \/ Lt32(Sub32(limit, p), U32(3))
  THEN NullEntry
  ELSE EntryFits(EntryHeader(Val(p), Val(limit)), limit)

----------------------------------------------------------------------------
(* BlockIter.  key_ is the IterKey: its size and the bytes of it that are   *)
(* readable (all of them unless the key slice leaves the buffer).  value_   *)
(* is the value slice: offset from data_ and length.  oobRead, oobSlice and *)
(* hung record what the operations did: a read outside [0, N), a key or     *)
(* value slice not inside [0, N), a loop that never ends; decodeFailed      *)
(* records that the last operation ran CorruptionError.                     *)

EmptyKey == [size |-> Zero32, bytes |-> <<>>]

EmptySlice == [off |-> Zero32, len |-> Zero32]

\* BlockIter(): the default-constructed cursor
NewBlockIter ==
  [init |-> FALSE, restarts_ |-> Zero32, num_restarts_ |-> Zero32,
   current_ |-> Zero32, restart_index_ |-> Zero32,
   key_ |-> EmptyKey, value_ |-> EmptySlice, status_ |-> "OK",
   hash_index_ |-> FALSE, prefix_index_ |-> FALSE,
   oobRead |-> FALSE, oobSlice |-> FALSE, hung |-> FALSE, decodeFailed |-> FALSE]

Valid(it) == Lt32(it.current_, it.restarts_)

NoteRead(it, oob) == [it EXCEPT !.oobRead = @ \/ oob]

NextEntryOffset(it) == Add32(it.value_.off, it.value_.len)

\* the restart array slot of index lies inside the buffer
RestartInBuf(it, index) ==
  index.hi = 0 /\ Val(it.restarts_) + 4 * index.lo + 4 <= N

GetRestartPoint(it, index, g) ==
  IF RestartInBuf(it, index)
  THEN [v |-> DecodeFixed32(Val(it.restarts_) + 4 * index.lo), oob |-> FALSE]
  ELSE [v |-> GarbageWord(g), oob |-> TRUE]

SeekToRestartPoint(it, index, g) ==
  LET r == GetRestartPoint(it, index, g)
  IN [it EXCEPT !.key_ = EmptyKey,
                !.restart_index_ = index,
                !.value_ = [off |-> r.v, len |-> Zero32],
                !.oobRead = @ \/ r.oob]

\* CorruptionError leaving restart_index_ where it was
CorruptionErrorKeepIndex(it) ==
  [it EXCEPT !.current_ = it.restarts_,
             !.status_ = "BadEntryInBlock",
             !.key_ = EmptyKey,
             !.value_ = EmptySlice,
             !.decodeFailed = TRUE]

CorruptionError(it) ==
  [it EXCEPT !.current_ = it.restarts_,
             !.restart_index_ = it.num_restarts_,
             !.status_ = "BadEntryInBlock",
             !.key_ = EmptyKey,
             !.value_ = EmptySlice,
             !.decodeFailed = TRUE]

\* IterKey::TrimAppend: keep shared bytes of the key, append [P, P + non_shared)
TrimAppend(key, shared, P, non_shared) ==
  [size |-> Add32(shared, non_shared),
   bytes |-> Take(key.bytes, IF shared.hi = 0 THEN Min(shared.lo, Len(key.bytes))
                             ELSE Len(key.bytes))
             \o Readable(P, non_shared)]

\* whether TrimAppend reads outside the buffer
TrimAppendOob(key, shared, P, non_shared) ==
  \/ shared.hi # 0
  \/ shared.lo > Len(key.bytes)
  \/ ~InBuf(P, non_shared)

\* the while loop of ParseNextKey.  Once a slot is outside the buffer every
\* later one is, and reads the same bytes: the loop then runs to the last index.
RECURSIVE AdvanceRestartIndex(_, _)
AdvanceRestartIndex(it, g) ==
  LET nxt == Add32(it.restart_index_, One32)
  IN IF ~Lt32(nxt, it.num_restarts_) THEN it
     ELSE LET r == GetRestartPoint(it, nxt, g)
          IN IF ~Lt32(r.v, it.current_) THEN NoteRead(it, r.oob)
             ELSE IF r.oob
             THEN [it EXCEPT !.restart_index_ = Sub32(it.num_restarts_, One32),
                             !.oobRead = TRUE]
             ELSE AdvanceRestartIndex([it EXCEPT !.restart_index_ = nxt], g)

\* ParseEntry with the shared prefix of the previous key dropped
ParseEntryNoPrefix(it, cur, d, g) ==
  IF ~d.ok \/ Lt32(it.key_.size, d.shared)
  THEN [ok |-> FALSE, it |-> CorruptionError([it EXCEPT !.current_ = cur])]
  ELSE [ok |-> TRUE,
        it |-> AdvanceRestartIndex(
                 [it EXCEPT !.current_ = cur,
                            !.key_ = [size |-> d.non_shared,
                                      bytes |-> Readable(d.p, d.non_shared)],
                            !.value_ = [off |-> Add32(U32(d.p), d.non_shared),
                                        len |-> d.value_length]], g)]

\* ParseNextKey from the decoded entry d at offset cur on
ParseEntry(it, cur, d, g) ==
  IF ~d.ok \/ Lt32(it.key_.size, d.shared)
  THEN [ok |-> FALSE, it |-> CorruptionError([it EXCEPT !.current_ = cur])]
  ELSE [ok |-> TRUE,
        it |-> AdvanceRestartIndex(
                 [it EXCEPT !.current_ = cur,
                            !.key_ = IF d.shared = Zero32
                                     THEN [size |-> d.non_shared,
                                           bytes |-> Readable(d.p, d.non_shared)]
                                     ELSE TrimAppend(it.key_, d.shared, d.p, d.non_shared),
                            !.value_ = [off |-> Add32(U32(d.p), d.non_shared),
                                        len |-> d.value_length],
                            !.oobRead = @ \/ (d.shared # Zero32
                                              /\ TrimAppendOob(it.key_, d.shared, d.p,
                                                               d.non_shared)),
                            !.oobSlice = @ \/ ~(/\ InBuf(d.p, d.non_shared)
                                                /\ InBuf(d.p + d.non_shared.lo,
                                                         d.value_length))], g)]

ParseNextKey(it, g) ==
  IF ~Lt32(NextEntryOffset(it), it.restarts_)
  THEN [ok |-> FALSE,
        it |-> [it EXCEPT !.current_ = it.restarts_,
                          !.restart_index_ = it.num_restarts_]]
  ELSE ParseEntry(it, NextEntryOffset(it),
                  DecodeEntry(NextEntryOffset(it), it.restarts_), g)

\* BlockIter::Next
BlockIterNext(it, g) == ParseNextKey(it, g).it

\* the rewind loop of Prev.  Slots outside the buffer all read the same bytes:
\* if one does not stop the loop, none does, down to the last slot inside.
RECURSIVE PrevRewind(_, _, _)
PrevRewind(it, original, g) ==
  LET r == GetRestartPoint(it, it.restart_index_, g)
  IN IF Lt32(r.v, original) THEN [end |-> FALSE, it |-> NoteRead(it, r.oob)]
     ELSE IF it.restart_index_ = Zero32
     THEN [end |-> TRUE,
           it |-> [it EXCEPT !.current_ = it.restarts_,
                             !.restart_index_ = it.num_restarts_]]
     ELSE IF r.oob
     THEN PrevRewind([it EXCEPT !.restart_index_ =
                                   U32(((N - Val(it.restarts_)) \div 4) - 1),
                                !.oobRead = TRUE], original, g)
     ELSE PrevRewind([it EXCEPT !.restart_index_ = Sub32(@, One32)], original, g)

\* the do-while loop of Prev; r is what ParseNextKey made of the cursor
RECURSIVE PrevWalk(_, _, _)
\* PrevStep stopping at the first entry parsed
PrevStepOnce(r, original, g) == r.it

PrevStep(r, original, g) ==
  IF r.ok /\ Lt32(NextEntryOffset(r.it), original)
  THEN PrevWalk(r.it, original, g)
  ELSE r.it

PrevWalk(it, original, g) == PrevStep(ParseNextKey(it, g), original, g)

\* Prev after the rewind loop w
PrevFrom(w, original, g) ==
  IF w.end THEN w.it
  ELSE PrevWalk(SeekToRestartPoint(w.it, w.it.restart_index_, g), original, g)

Prev(it, g) == PrevFrom(PrevRewind(it, it.current_, g), it.current_, g)

SeekToFirst(it, g) ==
  IF ~it.init THEN it
  ELSE ParseNextKey(SeekToRestartPoint(it, Zero32, g), g).it

\* the while loop of SeekToLast; r is what ParseNextKey made of the cursor
RECURSIVE SeekToLastWalk(_, _)
\* SeekToLastStep stopping at the first entry parsed
SeekToLastStepOnce(r, g) == r.it

SeekToLastStep(r, g) ==
  IF r.ok /\ Lt32(NextEntryOffset(r.it), r.it.restarts_)
  THEN SeekToLastWalk(r.it, g)
  ELSE r.it

SeekToLastWalk(it, g) == SeekToLastStep(ParseNextKey(it, g), g)

SeekToLast(it, g) ==
  IF ~it.init THEN it
  ELSE SeekToLastWalk(SeekToRestartPoint(it, Sub32(it.num_restarts_, One32), g), g)

----------------------------------------------------------------------------
(* Seek.  The comparator is bytewise.  The hash index and the prefix index  *)
(* are outside this file: what they answer is an input of the call.         *)

\* byte i (from 1) of the key; bytes past the readable ones are outside the buffer
KeyByte(key, i, g) == IF i <= Len(key.bytes) THEN key.bytes[i] ELSE Fill(g)

\* the number of bytes memcmp compares
CmpLen(key, target) ==
  IF key.size.hi = 0 /\ key.size.lo < Len(target) THEN key.size.lo ELSE Len(target)

Compare(key, target, g) ==
  LET m == CmpLen(key, target)
      diff == {i \in 1..m : KeyByte(key, i, g) # target[i]}
      first == CHOOSE i \in diff : \A j \in diff : i <= j
      c == IF diff # {}
           THEN (IF KeyByte(key, first, g) < target[first] THEN -1 ELSE 1)
           ELSE IF Lt32(key.size, U32(Len(target))) THEN -1
           ELSE IF key.size = U32(Len(target)) THEN 0
           ELSE 1
  IN [c |-> c, oob |-> m > Len(key.bytes)]

\* the key of a restart entry decoded as d: shared must be 0
RestartKeyOf(d, oob) ==
  [ok |-> d.ok /\ d.shared = Zero32,
   key |-> [size |-> d.non_shared, bytes |-> Readable(d.p, d.non_shared)],
   oob |-> oob]

\* the key of the entry at restart point index
RestartKey(it, index, g) ==
  RestartKeyOf(DecodeEntry(GetRestartPoint(it, index, g).v, it.restarts_),
               GetRestartPoint(it, index, g).oob)

\* the loop of BinarySeek.  seen holds the (left, right) pairs of the earlier
\* iterations, in order: the loop's whole state, so a pair met again is a loop
\* without end.  The result carries them, ended by the pair at exit, as ranges.
RECURSIVE BinarySeekLoop(_, _, _, _, _, _)
\* BinarySeekCmp moving left up to mid whatever the comparison says
BinarySeekCmpLate(it, target, left, right, mid, cmp, seen, g) ==
  BinarySeekLoop(NoteRead(it, cmp.oob), target, mid, right, seen, g)

\* BinarySeekCmp moving left past mid when the key at mid is below the target
BinarySeekCmpSkip(it, target, left, right, mid, cmp, seen, g) ==
  IF cmp.c < 0
  THEN BinarySeekLoop(NoteRead(it, cmp.oob), target, Add32(mid, One32), right, seen, g)
  ELSE IF cmp.c > 0
  THEN BinarySeekLoop(NoteRead(it, cmp.oob), target, left, Sub32(mid, One32), seen, g)
  ELSE BinarySeekLoop(NoteRead(it, cmp.oob), target, mid, mid, seen, g)

\* the rest of an iteration, from the comparison cmp of the key at mid on
BinarySeekCmp(it, target, left, right, mid, cmp, seen, g) ==
  IF cmp.c < 0 THEN BinarySeekLoop(NoteRead(it, cmp.oob), target, mid, right, seen, g)
  ELSE IF cmp.c > 0
  THEN BinarySeekLoop(NoteRead(it, cmp.oob), target, left, Sub32(mid, One32), seen, g)
  ELSE BinarySeekLoop(NoteRead(it, cmp.oob), target, mid, mid, seen, g)

\* the rest of an iteration, from the restart key k at mid on
BinarySeekKey(it, target, left, right, mid, k, seen, g) ==
  IF ~k.ok
  THEN [ok |-> FALSE, index |-> left, it |-> CorruptionError(NoteRead(it, k.oob)),
        ranges |-> seen]
  ELSE BinarySeekCmp(NoteRead(it, k.oob), target, left, right, mid,
                     Compare(k.key, target, g), seen, g)

BinarySeekLoop(it, target, left, right, seen, g) ==
  IF ~Lt32(left, right)
  THEN [ok |-> TRUE, index |-> left, it |-> it, ranges |-> Append(seen, <<left, right>>)]
  ELSE IF \E i \in 1..Len(seen) : seen[i] = <<left, right>>
  THEN [ok |-> FALSE, index |-> left, it |-> [it EXCEPT !.hung = TRUE],
        ranges |-> Append(seen, <<left, right>>)]
  ELSE BinarySeekKey(it, target, left, right,
                     Half32(Add32(Add32(left, right), One32)),
                     RestartKey(it, Half32(Add32(Add32(left, right), One32)), g),
                     Append(seen, <<left, right>>), g)

BinarySeek(it, target, left, right, g) ==
  BinarySeekLoop(it, target, left, right, <<>>, g)

\* CompareBlockKey from the restart key k on
CompareKey(it, k, target, g) ==
  IF ~k.ok
  THEN [c |-> 1, it |-> CorruptionError(NoteRead(it, k.oob))]
  ELSE [c |-> Compare(k.key, target, g).c,
        it |-> NoteRead(it, k.oob \/ Compare(k.key, target, g).oob)]

CompareBlockKey(it, block_index, target, g) ==
  CompareKey(it, RestartKey(it, block_index, g), target, g)

\* the loop of BinaryBlockIndexSeek; left and right index block_ids from 0
RECURSIVE BlockIndexLoop(_, _, _, _, _, _)
\* the rest of an iteration, from the comparison r of the block key at mid on
BlockIndexStep(r, target, block_ids, left, right, mid, g) ==
  IF r.it.status_ # "OK"
  THEN [err |-> TRUE, left |-> left, right |-> right, it |-> r.it]
  ELSE IF r.c < 0
  THEN BlockIndexLoop(r.it, target, block_ids, mid + 1, right, g)
  ELSE IF left = right
  THEN [err |-> FALSE, left |-> left, right |-> right, it |-> r.it]
  ELSE BlockIndexLoop(r.it, target, block_ids, left, mid, g)

BlockIndexLoop(it, target, block_ids, left, right, g) ==
  IF left > right THEN [err |-> FALSE, left |-> left, right |-> right, it |-> it]
  ELSE BlockIndexStep(
         CompareBlockKey(it, U32(block_ids[((left + right) \div 2) + 1]), target, g),
         target, block_ids, left, right, (left + right) \div 2, g)

\* BlockGap looking at the first block of block_ids only
BlockGapAtBound(block_ids, left, left_bound) ==
  /\ block_ids[left + 1] > 0
  /\ left = left_bound

\* whether the block found has no neighbour to its left in block_ids
BlockGap(block_ids, left, left_bound) ==
  /\ block_ids[left + 1] > 0
  /\ (left = left_bound \/ block_ids[left] # block_ids[left + 1] - 1)

\* the check of the block before the one found; r is its comparison
BlockIndexFound(r, id) ==
  IF r.c > 0
  THEN [ok |-> FALSE, index |-> Zero32,
        it |-> [r.it EXCEPT !.current_ = r.it.restarts_]]
  ELSE [ok |-> TRUE, index |-> U32(id), it |-> r.it]

\* BinaryBlockIndexSeek after its loop w
BlockIndexAfter(w, target, block_ids, left_bound, g) ==
  IF w.err THEN [ok |-> FALSE, index |-> Zero32, it |-> w.it]
  ELSE IF w.left = w.right
  THEN IF BlockGap(block_ids, w.left, left_bound)
       THEN BlockIndexFound(
              CompareBlockKey(w.it, U32(block_ids[w.left + 1] - 1), target, g),
              block_ids[w.left + 1])
       ELSE [ok |-> TRUE, index |-> U32(block_ids[w.left + 1]), it |-> w.it]
  ELSE [ok |-> FALSE, index |-> Zero32,
        it |-> [w.it EXCEPT !.current_ = w.it.restarts_]]

BinaryBlockIndexSeek(it, target, block_ids, left, right, g) ==
  BlockIndexAfter(BlockIndexLoop(it, target, block_ids, left, right, g),
                  target, block_ids, left, g)

\* found: what hash_index_->GetRestartIndex(target) returned: <<>> for nullptr,
\* else <<first_index, num_blocks>>
HashSeek(it, target, found, g) ==
  IF found = <<>>
  THEN [ok |-> FALSE, index |-> Zero32, it |-> [it EXCEPT !.current_ = it.restarts_]]
  ELSE BinarySeek(it, target, U32(found[1]), U32(found[1] + found[2] - 1), g)

\* block_ids: what prefix_index_->GetBlocks(target, &block_ids) returned
PrefixSeek(it, target, block_ids, g) ==
  IF Len(block_ids) = 0
  THEN [ok |-> FALSE, index |-> Zero32, it |-> [it EXCEPT !.current_ = it.restarts_]]
  ELSE BinaryBlockIndexSeek(it, target, block_ids, 0, Len(block_ids) - 1, g)

\* the linear search of Seek; r is what ParseNextKey made of the cursor
RECURSIVE SeekWalk(_, _, _)
SeekCmp(it, cmp, target, g) ==
  IF cmp.c >= 0 THEN NoteRead(it, cmp.oob)
  ELSE SeekWalk(NoteRead(it, cmp.oob), target, g)

SeekStep(r, target, g) ==
  IF ~r.ok THEN r.it
  ELSE SeekCmp(r.it, Compare(r.it.key_, target, g), target, g)

SeekWalk(it, target, g) == SeekStep(ParseNextKey(it, g), target, g)

\* Seek after the search s of the restart array
SeekFrom(s, target, g) ==
  IF ~s.ok THEN s.it
  ELSE SeekWalk(SeekToRestartPoint(s.it, s.index, g), target, g)

\* aux: the auxiliary index's answer for target (used by the indexed cursors)
Seek(it, target, aux, g) ==
  IF ~it.init THEN it
  ELSE SeekFrom(IF it.prefix_index_ THEN PrefixSeek(it, target, aux, g)
                ELSE IF it.hash_index_ THEN HashSeek(it, target, aux, g)
                ELSE BinarySeek(it, target, Zero32, Sub32(it.num_restarts_, One32), g),
                target, g)

----------------------------------------------------------------------------
(* Block.                                                                   *)

kMinBlockSize == 2 * 4

\* NumRestarts() of a block of size bytes (the trailer is read, whatever size)
NumRestarts(size) == DecodeFixed32(size - 4)

\* the assertion of NumRestarts
NumRestartsAssert(size) == size >= kMinBlockSize

\* Block::Block over the buffer: the object built
BlockCtor ==
  IF N < 4
  THEN [size_ |-> 0, restart_offset_ |-> Zero32,
        hash_index_ |-> FALSE, prefix_index_ |-> FALSE, assert_failed |-> FALSE]
  ELSE LET ro == Sub32(U32(N), Mul4(Add32(One32, NumRestarts(N))))
       IN [size_ |-> IF Lt32(U32(N - 4), ro) THEN 0 ELSE N,
           restart_offset_ |-> ro,
           hash_index_ |-> FALSE, prefix_index_ |-> FALSE,
           assert_failed |-> ~NumRestartsAssert(N)]

\* BlockIter::Initialize
Initialize(it, restarts, num_restarts, hash_index, prefix_index) ==
  [it EXCEPT !.init = TRUE,
             !.restarts_ = restarts,
             !.num_restarts_ = num_restarts,
             !.current_ = restarts,
             !.restart_index_ = num_restarts,
             !.hash_index_ = hash_index,
             !.prefix_index_ = prefix_index]

\* NewIterator leaving the status of the cursor of a degenerate block alone
NewIteratorUnchecked(b, total_order_seek) ==
  IF b.size_ < kMinBlockSize \/ NumRestarts(b.size_) = Zero32
  THEN NewBlockIter
  ELSE Initialize(NewBlockIter, b.restart_offset_, NumRestarts(b.size_),
                  ~total_order_seek /\ b.hash_index_,
                  ~total_order_seek /\ b.prefix_index_)

\* Block::NewIterator(cmp, iter, total_order_seek) with a fresh BlockIter
NewIterator(b, total_order_seek) ==
  IF b.size_ < kMinBlockSize
  THEN [NewBlockIter EXCEPT !.status_ = "BadBlockContents"]
  ELSE IF NumRestarts(b.size_) = Zero32
  THEN [NewBlockIter EXCEPT !.status_ = "OK"]
  ELSE Initialize(NewBlockIter, b.restart_offset_, NumRestarts(b.size_),
                  ~total_order_seek /\ b.hash_index_,
                  ~total_order_seek /\ b.prefix_index_)

NoMiddle ==
  [status |-> "none", key |-> EmptyKey, oobRead |-> FALSE, oobSlice |-> FALSE]

\* GetMiddleKey from the decoded entry d on; inb: the restart slot was in the buffer
MiddleKeyOf(d, inb) ==
  IF ~d.ok \/ d.shared # Zero32
  THEN [NoMiddle EXCEPT !.status = "BadEntryInBlock", !.oobRead = ~inb]
  ELSE [status |-> "OK",
        key |-> [size |-> d.non_shared, bytes |-> Readable(d.p, d.non_shared)],
        oobRead |-> ~inb,
        oobSlice |-> ~InBuf(d.p, d.non_shared)]

\* GetMiddleKey from the restart index on
MiddleEntry(b, restart_idx, inb, g) ==
  MiddleKeyOf(DecodeEntry(IF inb
                          THEN DecodeFixed32(Val(b.restart_offset_) + 4 * restart_idx.lo)
                          ELSE GarbageWord(g),
                          b.restart_offset_), inb)

\* GetMiddleKey without the case of the empty block
GetMiddleKeyNoEmpty(b, g) ==
  IF b.size_ < kMinBlockSize THEN [NoMiddle EXCEPT !.status = "BadBlockContents"]
  ELSE MiddleEntry(b, Half32(NumRestarts(b.size_)),
                   /\ Half32(NumRestarts(b.size_)).hi = 0
                   /\ Val(b.restart_offset_) + 4 * Half32(NumRestarts(b.size_)).lo + 4 <= N,
                   g)

\* GetMiddleKey taking the first restart point, not the middle one
GetMiddleKeyFirst(b, g) ==
  IF b.size_ < kMinBlockSize THEN [NoMiddle EXCEPT !.status = "BadBlockContents"]
  ELSE IF b.size_ = kMinBlockSize THEN [NoMiddle EXCEPT !.status = "Incomplete"]
  ELSE MiddleEntry(b, Zero32, Val(b.restart_offset_) + 4 <= N, g)

\* Block::GetMiddleKey
GetMiddleKey(b, g) ==
  IF b.size_ < kMinBlockSize THEN [NoMiddle EXCEPT !.status = "BadBlockContents"]
  ELSE IF b.size_ = kMinBlockSize THEN [NoMiddle EXCEPT !.status = "Incomplete"]
  ELSE MiddleEntry(b, Half32(NumRestarts(b.size_)),
                   /\ Half32(NumRestarts(b.size_)).hi = 0
                   /\ Val(b.restart_offset_) + 4 * Half32(NumRestarts(b.size_)).lo + 4 <= N,
                   g)

----------------------------------------------------------------------------
(* The buffers.  A well-formed block is what the block builder emits for a  *)
(* list of entries: each entry a 3-byte header (shared, non_shared,         *)
(* value_length), the unshared key bytes and the value; then the restart    *)
(* array and num_restarts, little-endian.                                   *)

MaxEntries == 3

KeySet == {<<>>, <<97>>, <<97, 97>>, <<97, 98>>, <<98>>}

Targets == KeySet \cup {<<97, 97, 97>>, <<98, 97>>}

ValueOf(k) == SubSeq(<<118, 119>>, 1, (Len(k) + 1) % 3)

AsKey(k) == [size |-> U32(Len(k)), bytes |-> k]

KeyLess(a, b) == Compare(AsKey(a), b, "zeros").c < 0

RECURSIVE SortedKeys(_)
SortedKeys(S) ==
  IF S = {} THEN <<>>
  ELSE LET m == CHOOSE k \in S : \A o \in S \ {k} : KeyLess(k, o)
       IN <<m>> \o SortedKeys(S \ {m})

\* the length of the longest common prefix
LCP(a, b) ==
  LET ls == {l \in 0..Min(Len(a), Len(b)) : Take(a, l) = Take(b, l)}
  IN CHOOSE l \in ls : \A o \in ls : o <= l

\* the entry lists over the keys ks (ascending): any restart points besides
\* entry 1, any sharing up to the common prefix with the key before
EntriesOver(ks) ==
  LET n == Len(ks)
      cap(i, R) == IF i = 1 \/ i \in R THEN 0 ELSE LCP(ks[i - 1], ks[i])
  IN IF n = 0 THEN {<<>>}
     ELSE UNION {{[i \in 1..n |-> [key |-> ks[i], value |-> ValueOf(ks[i]),
                                   shared |-> sh[i], restart |-> (i = 1 \/ i \in R)]] :
                    sh \in {f \in [1..n -> 0..2] : \A i \in 1..n : f[i] <= cap(i, R)}} :
                 R \in SUBSET (2..n)}

EntryLists ==
  UNION {EntriesOver(SortedKeys(S)) :
           S \in {T \in SUBSET KeySet : Cardinality(T) <= MaxEntries}}

EncodeEntry(e) ==
  <<e.shared, Len(e.key) - e.shared, Len(e.value)>>
    \o SubSeq(e.key, e.shared + 1, Len(e.key)) \o e.value

RECURSIVE EntryBytes(_)
EntryBytes(es) ==
  IF es = <<>> THEN <<>>
  ELSE EntryBytes(Take(es, Len(es) - 1)) \o EncodeEntry(es[Len(es)])

\* the byte offset of entry i (from 1); for i = Len(es) + 1 the end of the entries
EntryOffset(es, i) == Len(EntryBytes(Take(es, i - 1)))

PutFixed32(n) ==
  <<n % 256, (n \div 256) % 256, (n \div 65536) % 256, (n \div 16777216) % 256>>

\* the entries (by number) at restart points, ascending
RECURSIVE RestartEntries(_)
RestartEntries(es) ==
  IF es = <<>> THEN <<>>
  ELSE RestartEntries(Take(es, Len(es) - 1))
         \o (IF es[Len(es)].restart THEN <<Len(es)>> ELSE <<>>)

RECURSIVE RestartArray(_, _)
RestartArray(es, rs) ==
  IF rs = <<>> THEN <<>>
  ELSE RestartArray(es, Take(rs, Len(rs) - 1))
         \o PutFixed32(EntryOffset(es, rs[Len(rs)]))

BuildBlock(es) ==
  IF es = <<>> THEN PutFixed32(0) \o PutFixed32(1)
  ELSE EntryBytes(es) \o RestartArray(es, RestartEntries(es))
         \o PutFixed32(Len(RestartEntries(es)))

\* The damaged blocks: one byte of a well-formed block replaced.
MutKeys == <<<<97>>, <<97, 98>>, <<98>>>>

MutBases ==
  {es \in EntriesOver(MutKeys) :
     \A i \in 2..Len(es) :
       es[i].restart \/ es[i].shared = LCP(es[i - 1].key, es[i].key)}

MutVals == {0, 1, 2, 129, 255}

\* Other buffers: too short for a trailer, too short for a block, a trailer
\* naming no restart point, an entry header whose lengths add up past 2^32,
\* a trailer whose restart count times four wraps past 2^32.
RawBuffers ==
  {<<>>, <<1>>, <<1, 0, 0>>, <<0, 0, 0, 0>>, <<1, 0, 0, 0>>, <<0, 0, 0, 0, 0, 0, 0>>,
   <<0, 1, 0, 97, 0, 0, 0, 0, 0, 0, 0, 0>>,
   <<0, 255, 255, 255, 255, 15, 1, 0, 0, 0, 0, 1, 0, 0, 0>>,
   <<0, 1, 1, 97, 118, 0, 0, 0, 0, 1, 0, 0, 128>>}

\* the state before Block::Block, over a well-formed block of wf, a block of
\* mut with one byte replaced by a value of vals, or a buffer of raw
InitOver(wf, mut, vals, raw) ==
  /\ \/ \E es \in wf :
          /\ data = BuildBlock(es)
          /\ src = [kind |-> "wf", es |-> es, pos |-> 0]
     \/ \E es \in mut : \E pos \in 1..Len(BuildBlock(es)) : \E v \in vals :
          /\ v # BuildBlock(es)[pos]
          /\ data = [BuildBlock(es) EXCEPT ![pos] = v]
          /\ src = [kind |-> "mut", es |-> es, pos |-> pos]
     \/ \E b \in raw :
          /\ data = b
          /\ src = [kind |-> "raw", es |-> <<>>, pos |-> 0]
  /\ phase = "buffer"
  /\ block = [size_ |-> 0, restart_offset_ |-> Zero32,
              hash_index_ |-> FALSE, prefix_index_ |-> FALSE, assert_failed |-> FALSE]
  /\ iter = NewBlockIter
  /\ middle = NoMiddle
  /\ halt = "none"
  /\ lastOp = [name |-> "none", target |-> <<>>]
  /\ walk = -1

Init == InitOver(EntryLists, MutBases, MutVals, RawBuffers)

\* every entry of es is a restart point
AllRestarts(es) == \A i \in 1..Len(es) : es[i].restart

\* a block of three restart points with the shared length of its first or of
\* its second entry replaced by 1
AuxDamaged ==
  {[BuildBlock(es) EXCEPT ![EntryOffset(es, i) + 1] = 1] :
     es \in {e \in MutBases : AllRestarts(e)}, i \in 1..2}

\* the buffers the indexed cursors are run over: the blocks an auxiliary index
\* is built for, one restart point an entry, and two damaged ones
InitAux == InitOver({es \in EntryLists : AllRestarts(es)}, {}, {}, AuxDamaged)

----------------------------------------------------------------------------
(* The operations.                                                          *)

Construct ==
  /\ phase = "buffer" /\ halt = "none"
  /\ block' = BlockCtor
  /\ phase' = "block"
  /\ UNCHANGED <<data, src, iter, middle, halt, lastOp, walk>>

SetBlockHashIndex ==
  /\ phase = "block" /\ halt = "none" /\ ~block.hash_index_
  /\ block' = [block EXCEPT !.hash_index_ = TRUE]
  /\ UNCHANGED <<data, src, phase, iter, middle, halt, lastOp, walk>>

SetBlockPrefixIndex ==
  /\ phase = "block" /\ halt = "none" /\ ~block.prefix_index_
  /\ block' = [block EXCEPT !.prefix_index_ = TRUE]
  /\ UNCHANGED <<data, src, phase, iter, middle, halt, lastOp, walk>>

\* the end of GetMiddleKey whose result is r under outcome g
ReturnMiddle(r, g) ==
  IF r.oobRead /\ g = "crash"
  THEN halt' = "crashed" /\ UNCHANGED middle
  ELSE middle' = r /\ UNCHANGED halt

CallGetMiddleKey ==
  /\ phase = "block" /\ halt = "none"
  /\ \E g \in OobOutcomes : ReturnMiddle(GetMiddleKey(block, g), g)
  /\ UNCHANGED <<data, src, phase, block, iter, lastOp, walk>>

CallNewIterator ==
  /\ phase = "block" /\ halt = "none"
  /\ \E total_order_seek \in BOOLEAN : iter' = NewIterator(block, total_order_seek)
  /\ phase' = "iter"
  /\ UNCHANGED <<data, src, block, middle, halt, lastOp, walk>>

\* the cursor as an operation finds it: the reads of this call are noted afresh
Fresh == [iter EXCEPT !.oobRead = FALSE, !.decodeFailed = FALSE]

\* the outcomes to tell apart, given the result r0 under "zeros": one, unless
\* the operation reads outside the buffer (only such a read looks at the outcome)
Outcomes(r0) == IF r0.oobRead \/ r0.hung THEN OobOutcomes ELSE {"zeros"}

\* the end of the cursor operation op(target) whose result is r under outcome g
Return(r, g, op, target, w) ==
  IF r.oobRead /\ g = "crash"
  THEN halt' = "crashed" /\ UNCHANGED <<iter, lastOp, walk>>
  ELSE IF r.hung
  THEN halt' = "hung" /\ UNCHANGED <<iter, lastOp, walk>>
  ELSE /\ iter' = [r EXCEPT !.oobRead = @ \/ iter.oobRead]
       /\ lastOp' = [name |-> op, target |-> target]
       /\ walk' = w
       /\ UNCHANGED halt

CallSeekToFirst ==
  /\ phase = "iter" /\ halt = "none"
  /\ \E g \in Outcomes(SeekToFirst(Fresh, "zeros")) :
       Return(SeekToFirst(Fresh, g), g, "SeekToFirst", <<>>, 0)
  /\ UNCHANGED <<data, src, phase, block, middle>>

CallSeekToLast ==
  /\ phase = "iter" /\ halt = "none"
  /\ \E g \in Outcomes(SeekToLast(Fresh, "zeros")) :
       Return(SeekToLast(Fresh, g), g, "SeekToLast", <<>>, -1)
  /\ UNCHANGED <<data, src, phase, block, middle>>

CallNext ==
  /\ phase = "iter" /\ halt = "none"
  /\ Valid(iter)
  /\ \E g \in Outcomes(BlockIterNext(Fresh, "zeros")) :
       Return(BlockIterNext(Fresh, g), g, "Next", <<>>,
              IF walk >= 0 THEN walk + 1 ELSE -1)
  /\ UNCHANGED <<data, src, phase, block, middle>>

CallPrev ==
  /\ phase = "iter" /\ halt = "none"
  /\ Valid(iter)
  /\ \E g \in Outcomes(Prev(Fresh, "zeros")) :
       Return(Prev(Fresh, g), g, "Prev", <<>>, -1)
  /\ UNCHANGED <<data, src, phase, block, middle>>

RECURSIVE SortedInts(_)
SortedInts(S) ==
  IF S = {} THEN <<>>
  ELSE LET m == CHOOSE x \in S : \A y \in S : x <= y
       IN <<m>> \o SortedInts(S \ {m})

\* the restart indexes an auxiliary index may name
IndexRange ==
  0..((IF iter.num_restarts_.hi = 0 THEN Min(iter.num_restarts_.lo, MaxEntries) ELSE 2) - 1)

\* what the auxiliary index may answer: a run of restart indexes (hash index),
\* an ascending array of restart indexes (prefix index), or nothing
AuxAnswers ==
  IF iter.prefix_index_
  THEN {SortedInts(S) : S \in SUBSET IndexRange}
  ELSE IF iter.hash_index_
  THEN {<<>>} \cup {fn \in IndexRange \X (1..MaxEntries) : fn[1] + fn[2] - 1 \in IndexRange}
  ELSE {<<>>}

CallSeek ==
  /\ phase = "iter" /\ halt = "none"
  /\ \E target \in Targets : \E aux \in AuxAnswers :
       \E g \in Outcomes(Seek(Fresh, target, aux, "zeros")) :
         Return(Seek(Fresh, target, aux, g), g, "Seek", target, -1)
  /\ UNCHANGED <<data, src, phase, block, middle>>

Next ==
  \/ Construct
  \/ CallGetMiddleKey
  \/ CallNewIterator
  \/ CallSeekToFirst
  \/ CallSeekToLast
  \/ CallSeek
  \/ CallNext
  \/ CallPrev

Spec == Init /\ [][Next]_vars

\* the cursor with the auxiliary indexes attached before it is made
NextAux ==
  \/ Construct
  \/ SetBlockHashIndex
  \/ SetBlockPrefixIndex
  \/ CallNewIterator
  \/ CallSeekToFirst
  \/ CallSeekToLast
  \/ CallSeek
  \/ CallNext
  \/ CallPrev

SpecAux == InitAux /\ [][NextAux]_vars

----------------------------------------------------------------------------
(* The properties.  Entries are numbered from 1 here (entry i of the text   *)
(* is es[i + 1]); n is the number of entries of the block.                  *)

\* the bytes of the value slice the cursor exposes
ValueBytes(it) == Readable(Val(it.value_.off), it.value_.len)

\* the cursor is valid on entry i of es: its offset, its whole key, its value
OnEntry(it, es, i) ==
  /\ Valid(it)
  /\ it.current_ = U32(EntryOffset(es, i))
  /\ it.key_ = AsKey(es[i].key)
  /\ ValueBytes(it) = es[i].value

WellFormed == src.kind = "wf"

\* C1: over a well-formed block of n entries, SeekToFirst and then j Next
\* calls leave the cursor on entry j with its whole key and its value while
\* j < n, and invalid with status OK when j = n.
C1_RoundTrip ==
  (WellFormed /\ walk >= 0) =>
    IF walk < Len(src.es)
    THEN OnEntry(iter, src.es, walk + 1) /\ iter.status_ = "OK"
    ELSE ~Valid(iter) /\ iter.status_ = "OK"

\* a block of three entries, the later ones sharing a prefix, walked to its end
C1_Witness ==
  /\ WellFormed /\ Len(src.es) = 3
  /\ walk = 3 /\ lastOp.name = "Next"
  /\ \E i \in 1..3 : src.es[i].shared > 0
  /\ ~Valid(iter)

\* the entries of es whose key is not below target
AtLeast(es, target) == {i \in 1..Len(es) : ~KeyLess(es[i].key, target)}

\* C2: over a well-formed block (keys strictly increasing), after Seek(target)
\* on a total-order cursor the cursor is valid iff some entry has a key >=
\* target, and it is then on an entry with key >= target that is the first of
\* the block or follows an entry with key < target.
C2_SeekFirstAtLeast ==
  (WellFormed /\ lastOp.name = "Seek" /\ ~iter.hash_index_ /\ ~iter.prefix_index_) =>
    /\ Valid(iter) <=> AtLeast(src.es, lastOp.target) # {}
    /\ Valid(iter) =>
         \E i \in AtLeast(src.es, lastOp.target) :
           /\ OnEntry(iter, src.es, i)
           /\ (i = 1 \/ KeyLess(src.es[i - 1].key, lastOp.target))

\* a seek that lands inside the block, past a restart point, on a key above the target
C2_Witness ==
  /\ WellFormed /\ Len(src.es) = 3 /\ Len(RestartEntries(src.es)) >= 2
  /\ lastOp.name = "Seek"
  /\ OnEntry(iter, src.es, 3)
  /\ KeyLess(lastOp.target, src.es[3].key)

\* the entry the cursor is on, 0 when it is on none
EntryAt(it, es) ==
  IF \E i \in 1..Len(es) : OnEntry(it, es, i)
  THEN CHOOSE i \in 1..Len(es) : OnEntry(it, es, i)
  ELSE 0

\* C3: over a well-formed block a valid cursor is on an entry i, however it got
\* there; Prev moves it to entry i - 1, or makes it invalid from the first
\* entry; Next after a Prev moves it from entry j to entry j + 1, that is back.
C3_PrevNext ==
  [][WellFormed =>
       /\ Valid(iter) => EntryAt(iter, src.es) >= 1
       /\ CallPrev =>
            IF EntryAt(iter, src.es) = 1 THEN ~Valid(iter')
            ELSE OnEntry(iter', src.es, EntryAt(iter, src.es) - 1)
       /\ (CallNext /\ lastOp.name = "Prev") =>
            OnEntry(iter', src.es, EntryAt(iter, src.es) + 1)]_vars

\* Prev has stepped back inside a restart region, from the third entry to the second
C3_Witness ==
  /\ WellFormed /\ Len(src.es) = 3 /\ Len(RestartEntries(src.es)) = 1
  /\ lastOp.name = "Prev"
  /\ OnEntry(iter, src.es, 2)

\* C4: whatever the bytes of the buffer, no operation reads outside it and no
\* key or value slice exposed reaches outside it.
C4_CorruptionSafety ==
  /\ halt # "crashed"
  /\ ~iter.oobRead /\ ~iter.oobSlice
  /\ ~middle.oobRead /\ ~middle.oobSlice

\* C5: a cursor whose status is the corruption status of a decode error is
\* not valid, whatever was called on it since the error.
C5_CorruptTerminal == iter.status_ = "BadEntryInBlock" => ~Valid(iter)

\* C6: over the empty block (restart offset 0, num_restarts 1, nothing else)
\* the cursor is never valid, its status stays OK, and GetMiddleKey returns
\* Incomplete.
C6_EmptyBlock ==
  data = BuildBlock(<<>>) =>
    /\ phase = "iter" => (~Valid(iter) /\ iter.status_ = "OK")
    /\ middle.status \in {"none", "Incomplete"}

\* the empty block after GetMiddleKey and a Seek
C6_Witness ==
  /\ data = BuildBlock(<<>>)
  /\ middle.status = "Incomplete"
  /\ lastOp.name = "Seek" /\ iter.init

\* C7: a buffer shorter than 4 bytes is marked degenerate by the constructor;
\* over a degenerate block the cursor has status BadBlockContents and is never
\* valid, whatever is called on it, and GetMiddleKey returns BadBlockContents.
C7_Degenerate ==
  (phase # "buffer" /\ (N < 4 \/ block.size_ = 0)) =>
    /\ block.size_ = 0
    /\ phase = "iter" => (~Valid(iter) /\ iter.status_ = "BadBlockContents")
    /\ middle.status \in {"none", "BadBlockContents"}

\* a block of 4 bytes or more marked degenerate, after GetMiddleKey and a Seek
C7_Witness ==
  /\ N >= 4 /\ block.size_ = 0
  /\ middle.status = "BadBlockContents"
  /\ phase = "iter" /\ lastOp.name = "Seek"

\* the entry (numbered from 1) at the middle restart point of es
MiddleRestartEntry(es) == RestartEntries(es)[(Len(RestartEntries(es)) \div 2) + 1]

\* C8: GetMiddleKey leaves the block as it is; over a well-formed block with
\* entries it returns the key of the entry at restart index num_restarts / 2;
\* over such a block with the shared length of that entry's header damaged it
\* returns BadEntryInBlock.
C8_MiddleKey ==
  [][CallGetMiddleKey =>
       /\ block' = block /\ data' = data
       /\ (WellFormed /\ src.es # <<>>) =>
            /\ middle'.status = "OK"
            /\ middle'.key = AsKey(src.es[MiddleRestartEntry(src.es)].key)
       /\ (src.kind = "mut"
            /\ src.pos = EntryOffset(src.es, MiddleRestartEntry(src.es)) + 1) =>
            middle'.status = "BadEntryInBlock"]_vars

\* the middle key of a block with three restart points: the key of the second
C8_Witness ==
  /\ WellFormed /\ Len(RestartEntries(src.es)) = 3
  /\ middle.status = "OK"
  /\ middle.key = AsKey(src.es[2].key)

\* C9: over a well-formed block of n entries SeekToLast leaves the cursor on
\* entry n with its whole key and its value, or invalid with status OK when
\* n = 0; a Next right after it leaves the cursor invalid.
C9_SeekToLast ==
  [][WellFormed =>
       /\ CallSeekToLast =>
            IF src.es = <<>> THEN ~Valid(iter') /\ iter'.status_ = "OK"
            ELSE OnEntry(iter', src.es, Len(src.es))
       /\ (CallNext /\ lastOp.name = "SeekToLast") => ~Valid(iter')]_vars

\* SeekToLast over a block whose last restart region holds three entries
C9_Witness ==
  /\ WellFormed /\ Len(src.es) = 3 /\ Len(RestartEntries(src.es)) = 1
  /\ src.es[3].shared > 0
  /\ lastOp.name = "SeekToLast"
  /\ OnEntry(iter, src.es, 3)

\* C10: every cursor operation returns.
C10_Termination == halt # "hung"

\* the entry decoded as d keeps its unshared key bytes and its value bytes
\* below the limit L: the lengths are added as integers, without wrap-around
FitsBelow(d, L) ==
  d.ok => /\ d.non_shared.hi = 0 /\ d.value_length.hi = 0
          /\ d.non_shared.lo + d.value_length.lo <= L - d.p

\* C11: for every range [p, L) of the buffer, DecodeEntry succeeds only if
\* non_shared + value_length, added without wrap-around, is at most the
\* bytes left between the end of the header and L.
C11_DecodeBounds ==
  \A p \in 0..N : \A L \in p..N : FitsBelow(DecodeEntry(U32(p), U32(L)), L)

\* C12: the constructor leaves a buffer of N >= 4 bytes non-degenerate only if
\* 4 * (1 + num_restarts), computed without wrap-around, is at most N, the
\* restart offset being N minus that.
C12_TrailerValidation ==
  (phase # "buffer" /\ N >= 4 /\ block.size_ # 0) =>
    /\ NumRestarts(N).hi = 0
    /\ 4 * (1 + NumRestarts(N).lo) <= N
    /\ block.restart_offset_ = U32(N - 4 * (1 + NumRestarts(N).lo))

\* C13: a cursor operation that ran into a decode failure (an entry that does
\* not decode, a shared length above the length of the key so far, a restart
\* entry that does not decode or has shared # 0) returns with current_ =
\* restarts_, restart_index_ = num_restarts_, the key and the value empty and
\* the status BadEntryInBlock.
C13_EagerInvalidation ==
  iter.decodeFailed =>
    /\ iter.current_ = iter.restarts_
    /\ iter.restart_index_ = iter.num_restarts_
    /\ iter.key_ = EmptyKey
    /\ iter.value_.len = Zero32
    /\ iter.status_ = "BadEntryInBlock"

\* Next from a valid cursor has run into an entry of a damaged block that
\* does not decode
C13_Witness ==
  /\ src.kind = "mut"
  /\ lastOp.name = "Next"
  /\ iter.decodeFailed

\* the largest restart index of es whose offset is at most off
RestartIndexOf(es, off) ==
  Cardinality({j \in 1..Len(RestartEntries(es)) :
                 EntryOffset(es, RestartEntries(es)[j]) <= off}) - 1

\* C14: over a well-formed block a valid cursor has as restart_index_ the
\* largest restart index whose offset is at most current_, also right after
\* Next has moved it onto an entry at a restart offset.
C14_RestartIndex ==
  (WellFormed /\ phase = "iter" /\ Valid(iter)) =>
    iter.restart_index_ = U32(RestartIndexOf(src.es, Val(iter.current_)))

\* the restart indexes of the cursor whose slot holds the offset off
RestartsAt(it, off) ==
  {i \in 0..(N \div 4) :
     /\ Lt32(U32(i), it.num_restarts_)
     /\ RestartInBuf(it, U32(i))
     /\ GetRestartPoint(it, U32(i), "zeros").v = off}

\* C19: whatever the buffer, a valid cursor on an entry whose offset is in the
\* restart array is on an entry whose header has shared = 0.
C19_RestartShared ==
  (phase = "iter" /\ Valid(iter) /\ RestartsAt(iter, iter.current_) # {}) =>
    DecodeEntry(iter.current_, iter.restarts_).shared = Zero32

\* C20: the assertion of NumRestarts holds at every call: in the constructor,
\* in NewIterator (a cursor was initialized) and in GetMiddleKey (it went past
\* its size checks).
C20_NumRestartsAssert ==
  /\ ~block.assert_failed
  /\ (phase = "iter" /\ iter.init) => NumRestartsAssert(block.size_)
  /\ middle.status \notin {"none", "BadBlockContents"} => NumRestartsAssert(block.size_)

\* C15: an initialized cursor has current_ <= restarts_, is valid iff
\* current_ < restarts_, and has current_ = restarts_ exactly when
\* restart_index_ = num_restarts_, whatever index it seeks with.
C15_SentinelConsistency ==
  (phase = "iter" /\ iter.init) =>
    /\ ~Lt32(iter.restarts_, iter.current_)
    /\ Valid(iter) <=> Lt32(iter.current_, iter.restarts_)
    /\ iter.current_ = iter.restarts_ <=> iter.restart_index_ = iter.num_restarts_

\* the key at restart index i (from 0) of es
RestartKeyAt(es, i) == es[RestartEntries(es)[i + 1]].key

\* the restart-index ranges a Seek of the cursor searches with BinarySeek: what
\* the hash index may name, or the whole restart array
SearchRanges(it) ==
  IF it.hash_index_
  THEN {<<a[1], a[1] + a[2] - 1>> : a \in AuxAnswers \ {<<>>}}
  ELSE {<<0, Val(it.num_restarts_) - 1>>}

\* the (left, right) pairs BinarySeek goes through from [left, right]: one at
\* the start of each iteration, and the pair at exit
SeekRanges(it, target, left, right) ==
  BinarySeek(it, target, U32(left), U32(right), "zeros").ranges

\* the index i lies in the range rg
InRange(i, rg) == Val(rg[1]) <= i /\ i <= Val(rg[2])

\* the restart indexes of left..right whose key is not below target
RestartsAtLeast(es, target, left, right) ==
  {i \in left..right : ~KeyLess(RestartKeyAt(es, i), target)}

\* the restart indexes of left..right whose key is not above target
RestartsAtMost(es, target, left, right) ==
  {i \in left..right : ~KeyLess(target, RestartKeyAt(es, i))}

\* the first index of S, if any, lies in every range of rs
FirstInAll(S, rs) ==
  S # {} => \A k \in 1..Len(rs) : InRange(CHOOSE i \in S : \A j \in S : i <= j, rs[k])

\* the last index of S, if any, lies in every range of rs
LastInAll(S, rs) ==
  S # {} => \A k \in 1..Len(rs) : InRange(CHOOSE i \in S : \A j \in S : j <= i, rs[k])

\* the cursor has sought lastOp.target with BinarySeek over a well-formed block
BinarySought ==
  /\ WellFormed /\ src.es # <<>>
  /\ phase = "iter" /\ iter.init /\ ~iter.prefix_index_
  /\ lastOp.name = "Seek"

\* C16 as stated: in BinarySeek over [left, right], at the start of every
\* iteration and at exit, the first restart point of the range with key >=
\* target, if there is one, lies in the current [left, right].
C16_FirstAtLeastInRange ==
  BinarySought =>
    \A rg \in SearchRanges(iter) :
      FirstInAll(RestartsAtLeast(src.es, lastOp.target, rg[1], rg[2]),
                 SeekRanges(iter, lastOp.target, rg[1], rg[2]))

\* C16 as amended: in BinarySeek over [left, right], at the start of every
\* iteration and at exit, the last restart point of the range with key <=
\* target, if there is one, lies in the current [left, right].
C16_LastAtMostInRange ==
  BinarySought =>
    \A rg \in SearchRanges(iter) :
      LastInAll(RestartsAtMost(src.es, lastOp.target, rg[1], rg[2]),
                SeekRanges(iter, lastOp.target, rg[1], rg[2]))

\* a seek over three restart points that ran two iterations and ended on the
\* second restart point, the last one with key <= target, the third one being
\* the first with key >= target
C16_Witness ==
  /\ BinarySought /\ ~iter.hash_index_
  /\ Len(RestartEntries(src.es)) = 3
  /\ Len(SeekRanges(iter, lastOp.target, 0, 2)) = 3
  /\ RestartsAtMost(src.es, lastOp.target, 0, 2) = {0, 1}
  /\ RestartsAtLeast(src.es, lastOp.target, 0, 2) = {2}
  /\ Valid(iter)

Le32(a, b) == ~Lt32(b, a)

\* mid as BinarySeek computes it for the range rg
MidOf(rg) == Half32(Add32(Add32(rg[1], rg[2]), One32))

\* an iteration over the range rg has left < mid <= right
MidInRange(rg) ==
  Lt32(rg[1], rg[2]) => (Lt32(rg[1], MidOf(rg)) /\ Le32(MidOf(rg), rg[2]))

\* the ranges rs: every mid inside its range, every range inside the one
\* before it, not empty and narrower
RangesSafe(rs) ==
  /\ \A k \in 1..Len(rs) : MidInRange(rs[k])
  /\ \A k \in 1..(Len(rs) - 1) :
       /\ Le32(rs[k + 1][1], rs[k + 1][2])
       /\ Le32(rs[k][1], rs[k + 1][1]) /\ Le32(rs[k + 1][2], rs[k][2])
       /\ Lt32(Sub32(rs[k + 1][2], rs[k + 1][1]), Sub32(rs[k][2], rs[k][1]))

\* the search r from [0, last]: its ranges are safe, its result is in [0, last]
SearchSafe(r, last) == RangesSafe(r.ranges) /\ (r.ok => Le32(r.index, last))

\* C17: every BinarySeek of a total-order cursor, called with left = 0 <=
\* right = num_restarts_ - 1, has left < mid <= right in each iteration, keeps
\* left <= right, narrows the range each time, and returns an index of
\* [0, num_restarts_ - 1].
C17_RangeSafety ==
  (phase = "iter" /\ iter.init /\ ~iter.hash_index_ /\ ~iter.prefix_index_) =>
    \A target \in Targets : \A g \in OobOutcomes :
      SearchSafe(BinarySeek(iter, target, Zero32, Sub32(iter.num_restarts_, One32), g),
                 Sub32(iter.num_restarts_, One32))

\* the positions (from 1) of the candidate array B whose restart key is not
\* below target
Candidates(es, B, target) ==
  {j \in 1..Len(B) : ~KeyLess(RestartKeyAt(es, B[j]), target)}

\* the restart index at position j of B, or -1 when the restart point before
\* it is not the candidate before it and has a key above target
GapChecked(es, B, target, j) ==
  IF /\ B[j] > 0
     /\ (j = 1 \/ B[j - 1] # B[j] - 1)
     /\ KeyLess(target, RestartKeyAt(es, B[j] - 1))
  THEN -1
  ELSE B[j]

\* what the prefix-index seek is to select: a restart index, or -1 for none
PrefixExpected(es, B, target) ==
  IF Candidates(es, B, target) = {} THEN -1
  ELSE GapChecked(es, B, target,
                  CHOOSE j \in Candidates(es, B, target) :
                    \A k \in Candidates(es, B, target) : j <= k)

\* the result r of PrefixSeek is the expected one
PrefixAsExpected(r, expected) ==
  IF expected = -1
  THEN ~r.ok /\ ~Valid(r.it) /\ r.it.status_ = "OK"
  ELSE r.ok /\ r.index = U32(expected)

\* C18: over a well-formed block, for every target and every ascending array B
\* of restart indexes the prefix index may answer, the prefix seek of a cursor
\* selects B[j] for the smallest j with restart key at B[j] >= target; it
\* leaves the cursor invalid with status OK when there is no such j (B empty
\* included), or when B[j] > 0, B[j] - 1 is not the candidate before it and
\* the restart key at B[j] - 1 is above target.
C18_PrefixSeek ==
  (WellFormed /\ src.es # <<>> /\ phase = "iter" /\ iter.init /\ iter.prefix_index_) =>
    \A target \in Targets : \A B \in AuxAnswers :
      PrefixAsExpected(PrefixSeek(iter, target, B, "zeros"),
                       PrefixExpected(src.es, B, target))

\* a seek with a prefix index over three restart points has left the cursor
\* invalid, for a target that the candidates (0, 2) answer with the gap case:
\* restart point 2 is the first candidate at or above it, restart point 1 is
\* above it too
C18_Witness ==
  /\ WellFormed /\ Len(RestartEntries(src.es)) = 3
  /\ iter.init /\ iter.prefix_index_
  /\ lastOp.name = "Seek"
  /\ Candidates(src.es, <<0, 2>>, lastOp.target) = {2}
  /\ PrefixExpected(src.es, <<0, 2>>, lastOp.target) = -1
  /\ ~Valid(iter) /\ iter.status_ = "OK"

====
